---- MODULE Spec2Model ----
(***************************************************************************)
(* Model of grow.py: the Path classifier, FileSystem.filelist, the         *)
(* folder / compile / content helpers and the render handler.              *)
(*                                                                         *)
(* A Python str is modelled as a sequence of one-character strings, so     *)
(* that removeprefix, removesuffix, endswith, split, join and the          *)
(* ordering used by sorted() are computed, not assumed.                    *)
(***************************************************************************)
EXTENDS Integers, Sequences, FiniteSets, TLC

VARIABLES fs, raw, op, node, par, lsArg, ls, proc, page, calls

vars == <<fs, raw, op, node, par, lsArg, ls, proc, page, calls>>

(***************************************************************************)
(* Bounds                                                                  *)
(***************************************************************************)
\* longest raw string, in tokens, handed to Path() in SpecPath
MaxTokens == 4
\* deepest file below the content root in a modelled file system
MaxDepth == 3
\* most files in a modelled file system
MaxFiles == 2
\* most segments of a request path in SpecRender
MaxSegs == 2
\* largest exit status of the compiler
MaxStatus == 2

(***************************************************************************)
(* Strings                                                                 *)
(***************************************************************************)
\* the characters the model uses, in code point order
Chars == <<".", "/", "<", ">", "a", "d", "e", "h", "i", "k", "m", "p", "r", "s", "w", "x", "y", "z">>

Ord(c) == CHOOSE i \in 1..Len(Chars) : Chars[i] = c

SLASH == <<"/">>
DOT == <<".">>
DOTDOT == <<".", ".">>
EXT_MD == <<".", "m", "d">>
EXT_MKD == <<".", "m", "k", "d">>

\* str.removeprefix("/")
removeprefix(s) == IF Len(s) > 0 /\ s[1] = "/" THEN Tail(s) ELSE s

\* str.removesuffix("/")
removesuffix(s) == IF Len(s) > 0 /\ s[Len(s)] = "/" THEN SubSeq(s, 1, Len(s) - 1) ELSE s

\* str.endswith(suf)
endswith(s, suf) ==
    /\ Len(s) >= Len(suf)
    /\ SubSeq(s, Len(s) - Len(suf) + 1, Len(s)) = suf

\* "/" in s
HasSlash(s) == \E i \in 1..Len(s) : s[i] = "/"

\* str.split("/"): never empty, "" gives [""], "a//b" gives ["a", "", "b"]
RECURSIVE split(_)
split(s) ==
    IF ~HasSlash(s) THEN <<s>>
    ELSE LET i == CHOOSE j \in 1..Len(s) : s[j] = "/" /\ \A k \in 1..(j - 1) : s[k] # "/"
         IN  <<SubSeq(s, 1, i - 1)>> \o split(SubSeq(s, i + 1, Len(s)))

\* "/".join(segs)
RECURSIVE join(_)
join(segs) ==
    IF Len(segs) = 0 THEN <<>>
    ELSE IF Len(segs) = 1 THEN segs[1]
    ELSE segs[1] \o SLASH \o join(Tail(segs))

\* segs[:-1]
DropLast(segs) == SubSeq(segs, 1, Len(segs) - 1)

\* a < b for str: code point order, a proper prefix is smaller
RECURSIVE StrLess(_, _)
StrLess(a, b) ==
    IF Len(b) = 0 THEN FALSE
    ELSE IF Len(a) = 0 THEN TRUE
    ELSE IF a[1] # b[1] THEN Ord(a[1]) < Ord(b[1])
    ELSE StrLess(Tail(a), Tail(b))

\* sorted(set(...)) of a set of str
RECURSIVE sorted(_)
sorted(S) ==
    IF S = {} THEN <<>>
    ELSE LET m == CHOOSE x \in S : \A y \in S \ {x} : StrLess(x, y)
         IN  <<m>> \o sorted(S \ {m})

(***************************************************************************)
(* class Path                                                              *)
(***************************************************************************)
set_dir(p) == [path |-> p, is_dir |-> TRUE, is_file |-> FALSE]

set_file(p) == [path |-> p, is_dir |-> FALSE, is_file |-> TRUE]

\* Path.__init__ with the test for the second suffix left out
Path_noMkd(pathstr) ==
    LET p == removesuffix(removeprefix(pathstr))
    IN  IF p = <<>> THEN set_dir(DOT)
        ELSE IF endswith(p, EXT_MD) THEN set_file(p)
        ELSE set_dir(p)

\* Path.__init__
Path(pathstr) ==
    LET p == removesuffix(removeprefix(pathstr))
    IN  IF p = <<>> THEN set_dir(DOT)
        ELSE IF endswith(p, EXT_MD) \/ endswith(p, EXT_MKD) THEN set_file(p)
        ELSE set_dir(p)

\* Path.parent
parent(n) == IF n.is_dir THEN n ELSE Path(join(DropLast(split(n.path))))

\* Path.__str__
Str(n) == IF n.is_file THEN n.path ELSE n.path \o SLASH

NoNode == [path |-> <<>>, is_dir |-> FALSE, is_file |-> FALSE]

(***************************************************************************)
(* The file system glob.glob walks.  A location is the sequence of names   *)
(* from the top directory; the working directory of the process (the       *)
(* content root) is the directory w of the top directory.                  *)
(***************************************************************************)
X_MD == <<"x", ".", "m", "d">>
Z_MKD == <<"z", ".", "m", "k", "d">>
HID_MD == <<".", "m", "d">>
Y == <<"y">>
W == <<"w">>

Top == <<>>
cwd == <<W>>

DirNames == {Y, X_MD}
FileNames == {X_MD, Z_MKD}

\* locations of candidate files, as name sequences below the content root
FileCands ==
    UNION {{d \o <<f>> : d \in [1..(n - 1) -> DirNames], f \in FileNames} : n \in 1..MaxDepth}

\* what a tree may hold besides: a directory without files, a file with a
\* hidden name, a file in a directory with a hidden name
Extras ==
    {[files |-> {}, dirs |-> {}],
     [files |-> {}, dirs |-> {<<Y>>}],
     [files |-> {}, dirs |-> {<<X_MD>>}],
     [files |-> {}, dirs |-> {<<Y, X_MD>>}],
     [files |-> {<<HID_MD>>}, dirs |-> {}],
     [files |-> {<<Y, HID_MD>>}, dirs |-> {}],
     [files |-> {<<HID_MD, X_MD>>}, dirs |-> {}]}

IsPrefix(a, b) == Len(a) <= Len(b) /\ SubSeq(b, 1, Len(a)) = a

ProperPrefixes(S) == UNION {{SubSeq(e, 1, k) : k \in 0..(Len(e) - 1)} : e \in S}

\* the tree of the files F and the directories D, with the directories on
\* the way to them
Tree(F, D) ==
    [files |-> {cwd \o f : f \in F},
     dirs  |-> {Top, cwd} \cup {cwd \o d : d \in ProperPrefixes(F) \cup D \cup ProperPrefixes(D)}]

\* no name is both a file and a directory
WellFormed(t) == t.files \cap t.dirs = {}

\* the subsets of S with at most k elements
RECURSIVE SubsetsUpTo(_, _)
SubsetsUpTo(S, k) ==
    IF k = 0 THEN {{}}
    ELSE LET prev == SubsetsUpTo(S, k - 1)
         IN  prev \cup {G \cup {x} : G \in prev, x \in S}

FileSystems ==
    {t \in {Tree(F \cup e.files, e.dirs) : F \in SubsetsUpTo(FileCands, MaxFiles), e \in Extras} :
        WellFormed(t)}

NoDir == <<<<"?">>>>

\* the directory the operating system reaches from cur along segs
RECURSIVE Walk(_, _, _)
Walk(t, cur, segs) ==
    IF Len(segs) = 0 THEN cur
    ELSE LET s == segs[1]
         IN  IF s = <<>> \/ s = DOT THEN Walk(t, cur, Tail(segs))
             ELSE IF s = DOTDOT
                  THEN Walk(t, IF cur = Top THEN Top ELSE DropLast(cur), Tail(segs))
             ELSE IF (cur \o <<s>>) \in t.dirs THEN Walk(t, cur \o <<s>>, Tail(segs))
             ELSE NoDir

\* the directory a root_dir string names, NoDir when there is none
Resolve(t, root_dir) ==
    Walk(t, IF Len(root_dir) > 0 /\ root_dir[1] = "/" THEN Top ELSE cwd, split(root_dir))

Hidden(name) == Len(name) > 0 /\ name[1] = "."

\* glob.glob("**/*" + ext, root_dir=root_dir, recursive=True), as a set:
\* every file or directory below root_dir whose name ends in ext, reached
\* through names that do not start with a dot, relative to root_dir
glob(t, ext, root_dir) ==
    LET d == Resolve(t, root_dir)
    IN  IF d = NoDir THEN {}
        ELSE {join(SubSeq(e, Len(d) + 1, Len(e))) :
                e \in {x \in t.files \cup t.dirs :
                         /\ Len(x) > Len(d)
                         /\ IsPrefix(d, x)
                         /\ \A k \in (Len(d) + 1)..Len(x) : ~Hidden(x[k])
                         /\ endswith(x[Len(x)], ext)}}

(***************************************************************************)
(* class FileSystem                                                        *)
(***************************************************************************)
\* the two glob calls of filelist
Matches(t, path) == glob(t, EXT_MD, Str(path)) \cup glob(t, EXT_MKD, Str(path))

\* the comprehension that folds a nested match to its first segment
Fold(p) == IF HasSlash(p) THEN split(p)[1] \o SLASH ELSE p

\* FileSystem.filelist that leaves the up-entry out of an empty listing
filelist_noUp(t, path) ==
    LET l1 == Matches(t, path)
        l2 == {Fold(p) : p \in l1}
        l3 == IF l2 = {} THEN <<>> ELSE <<DOTDOT>> \o sorted(l2)
    IN  [i \in 1..Len(l3) |-> Path(l3[i])]

\* FileSystem.filelist
filelist(t, path) ==
    LET l1 == Matches(t, path)
        l2 == {Fold(p) : p \in l1}
        l3 == <<DOTDOT>> \o sorted(l2)
    IN  [i \in 1..Len(l3) |-> Path(l3[i])]

\* folder.link
link(path) ==
    [icon |-> IF path.is_file THEN "fa-file" ELSE "fa-folder",
     text |-> path,
     href |-> Str(path)]

\* folder listing the path it is given instead of its parent
folderDir_self(path) == path

\* the directory folder lists
folderDir(path) == parent(path)

\* folder
folder(t, path) ==
    LET l == filelist(t, folderDir(path))
    IN  [i \in 1..Len(l) |-> link(l[i])]

(***************************************************************************)
(* compile, content, render                                                *)
(***************************************************************************)
UNIDOC == <<"u", "n", "i", "d", "o", "c">>

HTML_HI == <<"<", "p", ">", "h", "i">>
ERR_TXT == <<"e", "r", "r">>
E_ACUTE == <<"é">>

\* the texts the compiler may write to either stream
Stdouts == {<<>>, HTML_HI, E_ACUTE}
Stderrs == {<<>>, ERR_TXT}

\* code points of the characters of those texts
CodePoints ==
    [c \in {"<", ">", "e", "h", "i", "p", "r", "é"} |->
        CASE c = "<" -> 60 [] c = ">" -> 62 [] c = "e" -> 101 [] c = "h" -> 104
          [] c = "i" -> 105 [] c = "p" -> 112 [] c = "r" -> 114 [] c = "é" -> 233]

\* the bytes of a text in the child's pipe: UTF-8, one byte below 128 and
\* two bytes below 2048
RECURSIVE encode(_)
encode(text) ==
    IF Len(text) = 0 THEN <<>>
    ELSE LET cp == CodePoints[text[1]]
         IN  (IF cp < 128 THEN <<cp>> ELSE <<192 + (cp \div 64), 128 + (cp % 64)>>)
             \o encode(Tail(text))

DecodeError == <<"UnicodeDecodeError">>

CharOf(cp) ==
    IF \E c \in DOMAIN CodePoints : CodePoints[c] = cp
    THEN <<CHOOSE c \in DOMAIN CodePoints : CodePoints[c] = cp>>
    ELSE DecodeError

\* bytes.decode(): the text, or DecodeError where the bytes are not UTF-8
RECURSIVE decode(_)
decode(bytes) ==
    IF Len(bytes) = 0 THEN <<>>
    ELSE LET b == bytes[1]
             one == b < 128
             two == b >= 192 /\ b < 224 /\ Len(bytes) >= 2 /\ bytes[2] >= 128 /\ bytes[2] < 192
             c == IF one THEN CharOf(b)
                  ELSE IF two THEN CharOf((b - 192) * 64 + (bytes[2] - 128))
                  ELSE DecodeError
             rest == IF one THEN decode(Tail(bytes))
                     ELSE IF two THEN decode(Tail(Tail(bytes)))
                     ELSE DecodeError
         IN  IF c = DecodeError \/ rest = DecodeError THEN DecodeError ELSE c \o rest

\* what subprocess.run can do: the child exits with a status after writing
\* a text to each stream, or the child cannot be started and OSError is
\* raised (FileNotFoundError for a missing binary, PermissionError for one
\* that is not executable)
RunOutcomes ==
    [kind : {"exit"}, status : 0..MaxStatus, stdout : Stdouts, stderr : Stderrs]
    \cup [kind : {"FileNotFoundError", "PermissionError"}, status : {0}, stdout : {<<>>}, stderr : {<<>>}]

\* no child process was started
NoRun == [kind |-> "none", status |-> 0, stdout |-> <<>>, stderr |-> <<>>]

\* the argument vector of subprocess.run
argv(path) == <<UNIDOC, Str(path)>>

\* the CompletedProcess of subprocess.run(..., capture_output=True)
run(out) == [returncode |-> out.status, stdout |-> encode(out.stdout), stderr |-> encode(out.stderr)]

\* compile: the returned tuple, or the exception that leaves it
compile(path, out) ==
    IF out.kind # "exit"
    THEN [raised |-> out.kind, ret |-> <<0, <<>>, <<>>>>, calls |-> <<argv(path)>>]
    ELSE LET p == run(out)
             so == decode(p.stdout)
             se == decode(p.stderr)
         IN  IF so = DecodeError \/ se = DecodeError
             THEN [raised |-> "UnicodeDecodeError", ret |-> <<0, <<>>, <<>>>>, calls |-> <<argv(path)>>]
             ELSE [raised |-> "", ret |-> <<p.returncode, so, se>>, calls |-> <<argv(path)>>]

\* Div(body, cls=cls); notstr is TRUE for a NotStr body, which is not escaped
Div(body, cls, notstr) == [body |-> body, cls |-> cls, notstr |-> notstr]

NoDiv == Div(<<>>, "", FALSE)

\* content with the test of the exit status inverted
content_inverted(path, out) ==
    IF ~path.is_file
    THEN [raised |-> "", div |-> Div(Str(path), "notification is-info", FALSE), calls |-> <<>>]
    ELSE LET r == compile(path, out)
         IN  IF r.raised # "" THEN [raised |-> r.raised, div |-> NoDiv, calls |-> r.calls]
             ELSE IF r.ret[1] # 0
                  THEN [raised |-> "", div |-> Div(r.ret[2], "content", TRUE), calls |-> r.calls]
             ELSE [raised |-> "", div |-> Div(r.ret[3], "notification is-danger", FALSE), calls |-> r.calls]

\* content
content(path, out) ==
    IF ~path.is_file
    THEN [raised |-> "", div |-> Div(Str(path), "notification is-info", FALSE), calls |-> <<>>]
    ELSE LET r == compile(path, out)
         IN  IF r.raised # "" THEN [raised |-> r.raised, div |-> NoDiv, calls |-> r.calls]
             ELSE IF r.ret[1] = 0
                  THEN [raised |-> "", div |-> Div(r.ret[2], "content", TRUE), calls |-> r.calls]
             ELSE [raised |-> "", div |-> Div(r.ret[3], "notification is-danger", FALSE), calls |-> r.calls]

NoPage == [raised |-> "", heading |-> NoNode, title |-> <<>>, listing |-> <<>>, panel |-> NoDiv]

\* render: the page it returns, or the exception that leaves it
renderPage(t, req, out) ==
    LET path == Path(req)
        f == folder(t, path)
        c == content(path, out)
    IN  IF c.raised # "" THEN [NoPage EXCEPT !.raised = c.raised]
        ELSE [raised |-> "", heading |-> path, title |-> Str(path), listing |-> f, panel |-> c.div]

(***************************************************************************)
(* Inputs                                                                  *)
(***************************************************************************)
Tokens == {SLASH, <<"a">>, EXT_MD, EXT_MKD, DOT, <<"m", "d">>}

RECURSIVE concat(_)
concat(ts) == IF Len(ts) = 0 THEN <<>> ELSE ts[1] \o concat(Tail(ts))

\* the raw strings handed to Path()
RawStrings == {concat(ts) : ts \in UNION {[1..n -> Tokens] : n \in 0..MaxTokens}}

\* the paths whose folder is listed
ListRaws ==
    {<<>>, DOTDOT, Y, Y \o SLASH, X_MD, join(<<X_MD, X_MD>>), join(<<Y, X_MD>>),
     join(<<Y, Y>>), join(<<Y, Y, Z_MKD>>), HID_MD, join(<<DOTDOT, W>>), SLASH \o SLASH \o Y,
     join(<<X_MD, Y>>), <<"a">>}

ReqNames == {Y, X_MD, Z_MKD, DOTDOT}

\* url paths the routes accept: "/" and one or more non-empty segments
Requests == {SLASH \o join(segs) : segs \in UNION {[1..n -> ReqNames] : n \in 1..MaxSegs}}

SampleTrees ==
    {Tree({}, {}),
     Tree({<<Y, X_MD>>, <<Y, Y, Z_MKD>>}, {}),
     Tree({<<X_MD, X_MD>>, <<Z_MKD>>}, {})}

(***************************************************************************)
(* State machines                                                          *)
(***************************************************************************)
Blank ==
    /\ op = "init"
    /\ node = NoNode
    /\ par = NoNode
    /\ lsArg = NoNode
    /\ ls = <<>>
    /\ proc = NoRun
    /\ page = NoPage
    /\ calls = <<>>

InitPath ==
    /\ fs = Tree({}, {})
    /\ raw \in RawStrings
    /\ Blank

InitList ==
    /\ fs \in FileSystems
    /\ raw \in ListRaws
    /\ Blank

InitRender ==
    /\ fs \in SampleTrees
    /\ raw \in Requests
    /\ Blank

\* path = Path(raw)
classify ==
    /\ op = "init"
    /\ op' = "classify"
    /\ node' = Path(raw)
    /\ UNCHANGED <<fs, raw, par, lsArg, ls, proc, page, calls>>

\* path.parent()
parentOf ==
    /\ op = "classify"
    /\ op' = "parent"
    /\ par' = parent(node)
    /\ UNCHANGED <<fs, raw, node, lsArg, ls, proc, page, calls>>

\* folder(Path(raw)): FileSystem.filelist(path.parent())
list ==
    /\ op = "init"
    /\ op' = "list"
    /\ node' = Path(raw)
    /\ lsArg' = folderDir(node')
    /\ ls' = filelist(fs, lsArg')
    /\ UNCHANGED <<fs, raw, par, proc, page, calls>>

\* render(req) with req.url.path = raw
render ==
    /\ op = "init"
    /\ \E out \in RunOutcomes :
         /\ proc' = IF Path(raw).is_file THEN out ELSE NoRun
         /\ page' = renderPage(fs, raw, out)
         /\ calls' = content(Path(raw), out).calls
    /\ op' = "render"
    /\ node' = Path(raw)
    /\ lsArg' = folderDir(node')
    /\ ls' = filelist(fs, lsArg')
    /\ UNCHANGED <<fs, raw, par>>

NextPath == classify \/ parentOf

NextList == list

NextRender == render

SpecPath == InitPath /\ [][NextPath]_vars

SpecList == InitList /\ [][NextList]_vars

SpecRender == InitRender /\ [][NextRender]_vars

(***************************************************************************)
(* Properties                                                              *)
(***************************************************************************)
Last(q) == q[Len(q)]

MdSuffix(name) == endswith(name, EXT_MD) \/ endswith(name, EXT_MKD)

RootNode == set_dir(DOT)

UpNode == set_dir(DOTDOT)

OnlySlashes(s) == \A i \in 1..Len(s) : s[i] = "/"

\* C1: the parent of every classified node is a Directory node.
C1_ParentIsDirectory == op = "parent" => par.is_dir /\ ~par.is_file

\* C5: classify gives a node for every raw string; the empty path gives the
\* root Directory node; otherwise the node is a File exactly when its last
\* segment ends in .md or .mkd and a Directory otherwise; a File displays as
\* its joined segments without a trailing separator and a Directory with
\* one separator appended.
C5_KindFromSuffix ==
    op \in {"classify", "parent"} =>
        /\ node.is_dir = ~node.is_file
        /\ raw \in {<<>>, SLASH} => node = RootNode
        /\ node.is_file <=> MdSuffix(Last(split(node.path)))
        /\ node.is_file => /\ Str(node) = join(split(node.path))
                           /\ Last(Str(node)) # "/"
        /\ node.is_dir => /\ Str(node) = join(split(node.path)) \o SLASH
                          /\ Len(Str(node)) = Len(node.path) + 1

C5_Witness ==
    /\ op = "classify"
    /\ node.is_file
    /\ endswith(node.path, EXT_MKD)
    /\ HasSlash(node.path)

\* C6: the path of a classified node has no leading and no trailing
\* separator, and a raw string made only of separators gives the root
\* Directory node.
C6_Stripped ==
    op = "classify" =>
        /\ node.path[1] # "/"
        /\ Last(node.path) # "/"
        /\ OnlySlashes(raw) => node = RootNode

\* the directory whose folder was listed, NoDir when it does not exist
ListedDir == Resolve(fs, Str(lsArg))

\* some file or directory below d has a markdown name
HoldsMarkdown(t, d) ==
    \E x \in t.files \cup t.dirs : Len(x) > Len(d) /\ IsPrefix(d, x) /\ MdSuffix(Last(x))

\* C2: every nested match is listed as its first segment with kind
\* Directory, every direct match as its name with kind File.
C2_FoldedKinds ==
    op = "list" =>
        \A p \in Matches(fs, lsArg) :
            \E i \in 2..Len(ls) :
                ls[i] = IF HasSlash(p) THEN set_dir(split(p)[1]) ELSE set_file(p)

\* C3: the entries after the up-entry are pairwise different nodes, in
\* ascending order of their string representation.
C3_SortedDistinct ==
    op = "list" =>
        \A i, j \in 2..Len(ls) : i < j => ls[i] # ls[j] /\ StrLess(Str(ls[i]), Str(ls[j]))

C10_RelativeToRoot ==
    op = "list" /\ ListedDir # NoDir /\ IsPrefix(cwd, ListedDir) =>
        {cwd \o <<ls[i].path>> : i \in 2..Len(ls)}
            = {ListedDir \o <<split(p)[1]>> : p \in Matches(fs, lsArg)}

\* C4: no failure of the compile step leaves render; a nonzero exit status
\* and a compiler that cannot be started both give the error fragment, and
\* the compiler is started once.
C4_CompileFailureRendered ==
    op = "render" /\ node.is_file =>
        /\ page.raised = ""
        /\ (proc.kind # "exit" \/ proc.status # 0) => page.panel.cls = "notification is-danger"
        /\ (proc.kind = "exit" /\ proc.status # 0) => page.panel.body = proc.stderr
        /\ Len(calls) = 1

\* C8: a Directory request gives the placeholder naming the directory and
\* starts no compiler; a File request starts the compiler once with the
\* file's path as its one argument and gives stdout unescaped in a content
\* fragment on status 0, stderr in an error fragment on any other status.
C8_PanelByKindAndStatus ==
    op = "render" =>
        /\ node.is_dir =>
             /\ calls = <<>>
             /\ page.panel = Div(node.path \o SLASH, "notification is-info", FALSE)
        /\ node.is_file =>
             /\ calls = <<<<UNIDOC, node.path>>>>
             /\ (proc.kind = "exit" /\ proc.status = 0) =>
                   page.panel = Div(proc.stdout, "content", TRUE)
             /\ (proc.kind = "exit" /\ proc.status # 0) =>
                   page.panel = Div(proc.stderr, "notification is-danger", FALSE)

C8_Witness ==
    /\ op = "render"
    /\ node.is_file
    /\ proc.kind = "exit"
    /\ proc.status = MaxStatus
    /\ page.panel.body = ERR_TXT
    /\ page.panel.cls = "notification is-danger"

\* the directory that holds the file of a File node
HoldingDir(t, n) == Walk(t, cwd, DropLast(split(n.path)))

\* C9: the listing panel is the listing of the parent of the classified
\* request: the directory itself for a Directory request, the directory
\* holding the file (never the file's own path) for a File request; the
\* heading is the classified node.
C9_ListingOfParent ==
    op = "render" /\ page.raised = "" =>
        /\ page.heading = node
        /\ node = Path(raw)
        /\ Len(page.listing) = Len(ls)
        /\ \A i \in 1..Len(ls) : page.listing[i].text = ls[i]
        /\ ls = filelist(fs, lsArg)
        /\ node.is_dir => lsArg = node
        /\ node.is_file =>
             /\ lsArg # node
             /\ Str(lsArg) # Str(node)
             /\ ListedDir = HoldingDir(fs, node)

C9_Witness ==
    /\ op = "render"
    /\ page.raised = ""
    /\ node.is_file
    /\ HasSlash(node.path)
    /\ ListedDir # NoDir
    /\ ListedDir # cwd
    /\ Len(page.listing) >= 2

====
